---- MODULE Spec2Model ----
\* Search controller (unifiedSearch, autocomplete) and the Booking pre-save
\* middleware, modelled as state machines.
\*
\*   Spec        one HTTP request to the search controller, from arrival to
\*               the settlement of every database operation it issued
\*   FairSpec    Spec with the scheduling the event loop guarantees
\*   BookingSpec a Booking document: construction, updates and saves
EXTENDS Integers, Sequences, FiniteSets, TLC

VARIABLES
    inbox,      \* the request handed to the handler by the router (<<>> or <<req>>)
    pc,         \* handler position: "idle", "waiting" (at the await), "done"
    hnd,        \* which handler runs
    query,      \* const query  (trimmed q)
    type,       \* const type
    page,       \* const page
    limit,      \* const limit
    db,         \* number of documents matching the term, per collection
    opState,    \* state of the promise of every operation passed to Promise.all
    slots,      \* values collected by Promise.all, by index
    queries,    \* the database queries issued, in issue order
    sent,       \* the responses written to res
    uncaught,   \* a rejection nobody handles has happened
    doc,        \* the Booking document in memory
    supplied,   \* what the caller passed for nights / guests.total on construction
    saves       \* number of completed save() calls on doc

searchVars  == <<inbox, pc, hnd, query, type, page, limit, db, opState, slots, queries, sent, uncaught>>
bookingVars == <<doc, supplied, saves>>
vars        == <<inbox, pc, hnd, query, type, page, limit, db, opState, slots, queries, sent, uncaught, doc, supplied, saves>>

\* ------------------------------------------------------------------ bounds
MaxPad     == 1   \* blanks around the raw search term, each side
MaxDocs    == 2   \* matching documents per collection (unifiedSearch)
MaxMatches == 4   \* matching titles / names / districts per category (autocomplete)
MaxDay     == 3   \* latest day of a check-in / check-out date
MaxAdults  == 2
MaxSaves   == 2

\* ------------------------------------------------------------------ helpers
Min(a, b) == IF a < b THEN a ELSE b

Max(a, b) == IF a > b THEN a ELSE b

Range(s) == {s[i] : i \in 1..Len(s)}

Blanks(n) == [i \in 1..n |-> " "]

\* ------------------------------------------------------------------ request
\* The search terms tried, before padding with blanks.
Cores == {<<>>, <<"a">>, <<"a", "a">>, <<"a", "(">>}

RawTerms == {Blanks(l) \o c \o Blanks(r) : l \in 0..MaxPad, r \in 0..MaxPad, c \in Cores}

\* "" stands for an absent type parameter.
RawTypes == {"", "all", "homestays", "guides", "products", "hotels"}

\* The page / limit parameters tried; 0 stands for an absent (or non-numeric)
\* one.
RawPages == {0, 1, 2}

RawLimits == {0, 1}

Requests ==
    [handler : {"unifiedSearch"}, hasQ : BOOLEAN, q : RawTerms, type : RawTypes,
     page : RawPages, limit : RawLimits]
    \cup
    [handler : {"autocomplete"}, hasQ : BOOLEAN, q : RawTerms, type : {""},
     page : {0}, limit : {0}]

\* req.query.q as string || ''
QueryParam(req) == IF req.hasQ THEN req.q ELSE <<>>

RECURSIVE TrimStart(_)
TrimStart(s) == IF s # <<>> /\ Head(s) = " " THEN TrimStart(Tail(s)) ELSE s

RECURSIVE TrimEnd(_)
TrimEnd(s) == IF s # <<>> /\ s[Len(s)] = " " THEN TrimEnd(SubSeq(s, 1, Len(s) - 1)) ELSE s

\* String.prototype.trim
Trim(s) == TrimEnd(TrimStart(s))

\* (req.query.type as SearchType) || 'all'
TypeParam(req) == IF req.type = "" THEN "all" ELSE req.type

DefaultPage  == 1
DefaultLimit == 10
LimitCap     == 100

\* parsePaginationParams(page, limit)
ParsePaginationParams(p, l) ==
    [page  |-> IF p < 1 THEN DefaultPage ELSE p,
     limit |-> IF l < 1 THEN DefaultLimit ELSE Min(l, LimitCap)]

\* A validation that only refuses the empty term.
TooShortLoose(q) == Len(q) < 1

\* if (query.length < 2)
TooShort(q) == Len(q) < 2

\* new RegExp(query, 'i') throws a SyntaxError on an unterminated group
ValidPattern(q) == "(" \notin Range(q)

\* ------------------------------------------------------------------ responses
\* sendError(res, 'Validation failed', 400, [{ field: 'q', ... }])
ValidationError == [status |-> 400, errors |-> <<"q">>, body |-> <<>>]

\* sendError(res, 'Failed to ...', 500)
Failure == [status |-> 500, errors |-> <<>>, body |-> <<>>]

\* sendSuccess(res, data)
Success(data) == [status |-> 200, errors |-> <<>>, body |-> data]

\* getPaginationMeta(page, limit, total)
GetPaginationMeta(p, l, total) ==
    [page |-> p, limit |-> l, total |-> total, totalPages |-> (total + l - 1) \div l]

\* ------------------------------------------------------------------ database
Collections == {"homestays", "guides", "products", "districts"}

Tag(coll) ==
    CASE coll = "homestays" -> "homestay"
      [] coll = "guides"    -> "guide"
      [] coll = "products"  -> "product"
      [] coll = "districts" -> "location"

\* .skip(s).limit(l): the documents s+1 .. s+l of the n that match
FindPage(n, s, l) == [i \in 1..Max(0, Min(l, n - s)) |-> s + i]

\* .then(results => results.map(x => ({ ...x, type: '...' })))
MapTagged(ids, coll) == [i \in 1..Len(ids) |-> [id |-> ids[i], type |-> Tag(coll)]]

SearchDbs ==
    {[c \in Collections |-> IF c = "districts" THEN 0 ELSE f[c]] :
        f \in [Collections \ {"districts"} -> 0..MaxDocs]}

AutoDbs == [Collections -> 0..MaxMatches]

NoDb == [c \in Collections |-> 0]

\* ------------------------------------------------------------------ operations
\* Index of every promise in the arrays handed to Promise.all.
\* unifiedSearch: searchPromises 1..3 (homestays, guides, products), then
\* countPromises 4..6; autocomplete: homestays, guides, products, locations.
OpsOf(h) == IF h = "unifiedSearch" THEN 1..6 ELSE 1..4

OpColl(h, op) ==
    IF h = "unifiedSearch"
    THEN <<"homestays", "guides", "products", "homestays", "guides", "products">>[op]
    ELSE <<"homestays", "guides", "products", "districts">>[op]

OpKind(h, op) ==
    IF h = "unifiedSearch"
    THEN (IF op <= 3 THEN "find" ELSE "count")
    ELSE (IF op <= 3 THEN "find" ELSE "aggregate")

\* A type filter that is ignored.
ActiveAlways(t, coll) == TRUE

\* if (type === 'all' || type === '<collection>')
Active(t, coll) == t = "all" \/ t = coll

\* A skip that takes pages to start at 0.
SkipFromPage(p, l) == p * l

\* .skip((page - 1) * limit)
Skip(p, l) == (p - 1) * l

\* .limit(3) / { $limit: 3 }
SuggestionLimit == 3

\* suggestions.slice(0, 10)
MaxSuggestions == 10

\* The query a still-to-be-built promise stands for.
SearchQuery(op, p, l) ==
    [op |-> op, kind |-> OpKind("unifiedSearch", op), coll |-> OpColl("unifiedSearch", op),
     skip  |-> IF op <= 3 THEN Skip(p, l) ELSE 0,
     limit |-> IF op <= 3 THEN l ELSE 0]

AutoQuery(op) ==
    [op |-> op, kind |-> OpKind("autocomplete", op), coll |-> OpColl("autocomplete", op),
     skip |-> 0, limit |-> SuggestionLimit]

\* The promises of unifiedSearch that are database queries, in issue order.
SearchQueries(t, p, l) ==
    LET all == [op \in 1..6 |-> SearchQuery(op, p, l)]
    IN  SelectSeq(all, LAMBDA q : Active(t, q.coll))

AutoQueries == [op \in 1..4 |-> AutoQuery(op)]

\* Promise.resolve([]) / Promise.resolve(0) for a type the filter excludes
Resolved(op) == IF op <= 3 THEN <<>> ELSE 0

QueryOf(op) == queries[CHOOSE i \in 1..Len(queries) : queries[i].op = op]

\* What the database answers to a query.
OpResult(h, q, d) ==
    CASE q.kind = "count"     -> d[q.coll]
      [] q.kind = "aggregate" -> FindPage(d[q.coll], 0, q.limit)
      [] q.kind = "find"      ->
            IF h = "unifiedSearch"
            THEN MapTagged(FindPage(d[q.coll], q.skip, q.limit), q.coll)
            ELSE FindPage(d[q.coll], q.skip, q.limit)

\* Values collected in the order of arrival: the first free index of the array.
SlotByArrival(op, sl) ==
    LET group == IF Cardinality(DOMAIN opState) = 6
                 THEN (IF op <= 3 THEN 1..3 ELSE 4..6)
                 ELSE 1..4
        free  == group \ DOMAIN sl
    IN  CHOOSE i \in free : \A j \in free : i <= j

\* Promise.all keeps each value at the index of its promise.
SlotOf(op, sl) == op

\* The state of the awaited Promise.all, from the states of its promises.
OuterState(st) ==
    IF \E op \in DOMAIN st : st[op] = "failed" THEN "rejected"
    ELSE IF \A op \in DOMAIN st : st[op] = "ok" THEN "fulfilled"
    ELSE "pending"

\* Every promise is handed to Promise.all in the same synchronous stretch that
\* creates it, so every one of them has a rejection handler.
Attached(h) == OpsOf(h)

\* A payload whose overall total leaves the products out.
SearchPayloadNoProducts(sl, q, p, l) ==
    LET overall == sl[4] + sl[5]
    IN  [homestays |-> sl[1], guides |-> sl[2], products |-> sl[3],
         total |-> [homestays |-> sl[4], guides |-> sl[5], products |-> sl[6],
                    overall |-> overall],
         query |-> q,
         pagination |-> GetPaginationMeta(p, l, overall)]

\* lines 186-205: the success payload of unifiedSearch
SearchPayload(sl, q, p, l) ==
    LET overall == sl[4] + sl[5] + sl[6]
    IN  [homestays |-> sl[1], guides |-> sl[2], products |-> sl[3],
         total |-> [homestays |-> sl[4], guides |-> sl[5], products |-> sl[6],
                    overall |-> overall],
         query |-> q,
         pagination |-> GetPaginationMeta(p, l, overall)]

Suggest(ids, coll) == [i \in 1..Len(ids) |-> [type |-> Tag(coll), id |-> ids[i]]]

\* suggestions.slice(0, n)
Slice(s, n) == SubSeq(s, 1, Min(n, Len(s)))

\* A payload that concatenates in the order of the Promise.all array.
AutoPayloadLocationsLast(sl) ==
    [suggestions |->
        Slice(Suggest(sl[1], "homestays") \o Suggest(sl[2], "guides")
              \o Suggest(sl[3], "products") \o Suggest(sl[4], "districts"), MaxSuggestions)]

\* lines 262-291: the success payload of autocomplete
AutoPayload(sl) ==
    [suggestions |->
        Slice(Suggest(sl[4], "districts") \o Suggest(sl[1], "homestays")
              \o Suggest(sl[2], "guides") \o Suggest(sl[3], "products"), MaxSuggestions)]

\* A handler that answers with what it has, an empty result standing in for
\* every operation that failed or has not answered.
AfterAwaitDefaulting(h, st, sl, q, p, l) ==
    LET filled == [op \in DOMAIN st |->
                      IF op \in DOMAIN sl THEN sl[op]
                      ELSE IF h = "unifiedSearch" THEN Resolved(op) ELSE <<>>]
    IN  IF h = "unifiedSearch"
        THEN Success(SearchPayload(filled, q, p, l))
        ELSE Success(AutoPayload(filled))

\* What the handler sends when its await returns or throws: the success
\* payload (lines 186-205, 262-291) when Promise.all is fulfilled, the generic
\* error of the catch block (lines 206-209, 292-295) when it is rejected.
AfterAwait(h, st, sl, q, p, l) ==
    IF OuterState(st) = "rejected" THEN Failure
    ELSE IF h = "unifiedSearch"
         THEN Success(SearchPayload(sl, q, p, l))
         ELSE Success(AutoPayload(sl))

\* ------------------------------------------------------------------ booking
\* An optional field of the document: unset (undefined) or holding a value.
Unset == [set |-> FALSE, val |-> 0]

Val(v) == [set |-> TRUE, val |-> v]

\* 1000 * 60 * 60 * 24
MsPerDay == 1000 * 60 * 60 * 24

\* Instants, in milliseconds after the first midnight of the model.
Dates == {d * MsPerDay + o : d \in 0..MaxDay, o \in {0, 1}}

DateInputs == {Unset} \cup {Val(t) : t \in Dates}

NightsInputs == {Unset, Val(0), Val(1), Val(7)}

ChildrenInputs == {Unset, Val(0), Val(1)}

TotalInputs == {Unset, Val(0), Val(9)}

\* !x for a number field: undefined and 0 are falsy
Falsy(f) == ~f.set \/ f.val = 0

\* Math.floor(a / b) for b > 0
FloorDiv(a, b) == a \div b

\* Math.ceil(a / b) for b > 0
CeilDiv(a, b) == -((-a) \div b)

NoDoc ==
    [created |-> FALSE, checkIn |-> Unset, checkOut |-> Unset, nights |-> Unset,
     hasGuests |-> FALSE, adults |-> 0, children |-> Unset, total |-> Unset]

\* The document a caller constructs: guestCountSchema gives children its default.
NewDoc(ci, co, n, g, a, c, t) ==
    [created |-> TRUE, checkIn |-> ci, checkOut |-> co, nights |-> n,
     hasGuests |-> g,
     adults    |-> IF g THEN a ELSE 0,
     children  |-> IF g THEN (IF c.set THEN c ELSE Val(0)) ELSE Unset,
     total     |-> IF g THEN t ELSE Unset]

\* bookingSchema.pre('save')
PreSave(d) ==
    [d EXCEPT
        !.nights = IF Falsy(d.nights) /\ d.checkIn.set /\ d.checkOut.set
                   THEN Val(CeilDiv(d.checkOut.val - d.checkIn.val, MsPerDay))
                   ELSE d.nights,
        !.total  = IF d.hasGuests /\ Falsy(d.total)
                   THEN Val(d.adults + (IF Falsy(d.children) THEN 0 ELSE d.children.val))
                   ELSE d.total]

\* ------------------------------------------------------------------ actions
Init ==
    /\ inbox = <<>>
    /\ pc = "idle"
    /\ hnd = "none"
    /\ query = <<>>
    /\ type = "all"
    /\ page = 0
    /\ limit = 0
    /\ db = NoDb
    /\ opState = <<>>
    /\ slots = <<>>
    /\ queries = <<>>
    /\ sent = <<>>
    /\ uncaught = FALSE
    /\ doc = NoDoc
    /\ supplied = [nights |-> Unset, total |-> Unset]
    /\ saves = 0

\* The router hands a request to its handler.
Receive ==
    /\ pc = "idle"
    /\ inbox = <<>>
    /\ sent = <<>>
    /\ \E req \in Requests : inbox' = <<req>>
    /\ UNCHANGED <<pc, hnd, query, type, page, limit, db, opState, slots, queries, sent, uncaught>>
    /\ UNCHANGED bookingVars

\* unifiedSearch, from its entry to the await (lines 36-184); with no type
\* active every promise is already resolved and the handler runs on to its end.
UnifiedSearch ==
    /\ pc = "idle"
    /\ inbox # <<>>
    /\ Head(inbox).handler = "unifiedSearch"
    /\ LET req == Head(inbox)
           q   == Trim(QueryParam(req))
           t   == TypeParam(req)
           pl  == ParsePaginationParams(req.page, req.limit)
       IN  /\ inbox' = <<>>
           /\ hnd' = "unifiedSearch"
           /\ query' = q
           /\ type' = t
           /\ page' = pl.page
           /\ limit' = pl.limit
           /\ \/ /\ TooShort(q)
                 /\ sent' = Append(sent, ValidationError)
                 /\ pc' = "done"
                 /\ UNCHANGED <<db, opState, slots, queries>>
              \/ /\ ~TooShort(q)
                 /\ ~ValidPattern(q)
                 /\ sent' = Append(sent, Failure)
                 /\ pc' = "done"
                 /\ UNCHANGED <<db, opState, slots, queries>>
              \/ /\ ~TooShort(q)
                 /\ ValidPattern(q)
                 /\ \E d \in SearchDbs : db' = d
                 /\ opState' = [op \in 1..6 |->
                        IF Active(t, OpColl("unifiedSearch", op)) THEN "pending" ELSE "ok"]
                 /\ slots' = [op \in {o \in 1..6 : ~Active(t, OpColl("unifiedSearch", o))} |->
                        Resolved(op)]
                 /\ queries' = SearchQueries(t, pl.page, pl.limit)
                 /\ IF OuterState(opState') = "pending"
                    THEN /\ pc' = "waiting"
                         /\ sent' = sent
                    ELSE /\ pc' = "done"
                         /\ sent' = Append(sent,
                                AfterAwait("unifiedSearch", opState', slots', q, pl.page, pl.limit))
    /\ UNCHANGED uncaught
    /\ UNCHANGED bookingVars

\* autocomplete, from its entry to the await (lines 221-260).
Autocomplete ==
    /\ pc = "idle"
    /\ inbox # <<>>
    /\ Head(inbox).handler = "autocomplete"
    /\ LET req == Head(inbox)
           q   == Trim(QueryParam(req))
       IN  /\ inbox' = <<>>
           /\ hnd' = "autocomplete"
           /\ query' = q
           /\ \/ /\ TooShort(q)
                 /\ sent' = Append(sent, ValidationError)
                 /\ pc' = "done"
                 /\ UNCHANGED <<db, opState, slots, queries>>
              \/ /\ ~TooShort(q)
                 /\ ~ValidPattern(q)
                 /\ sent' = Append(sent, Failure)
                 /\ pc' = "done"
                 /\ UNCHANGED <<db, opState, slots, queries>>
              \/ /\ ~TooShort(q)
                 /\ ValidPattern(q)
                 /\ \E d \in AutoDbs : db' = d
                 /\ opState' = [op \in 1..4 |-> "pending"]
                 /\ slots' = <<>>
                 /\ queries' = AutoQueries
                 /\ pc' = "waiting"
                 /\ sent' = sent
    /\ UNCHANGED <<type, page, limit, uncaught>>
    /\ UNCHANGED bookingVars

\* The handler, suspended at its await, runs on as soon as Promise.all settles
\* (a microtask of the step that settled it); a handler that has already
\* answered is not resumed.
Resume(st, sl) ==
    IF pc = "waiting" /\ OuterState(st) # "pending"
    THEN /\ sent' = Append(sent, AfterAwait(hnd, st, sl, query, page, limit))
         /\ pc' = "done"
    ELSE UNCHANGED <<sent, pc>>

\* A database operation answers: its promise is fulfilled.
Complete(op) ==
    /\ op \in DOMAIN opState
    /\ opState[op] = "pending"
    /\ opState' = [opState EXCEPT ![op] = "ok"]
    /\ slots' = slots @@ (SlotOf(op, slots) :> OpResult(hnd, QueryOf(op), db))
    /\ Resume(opState', slots')
    /\ UNCHANGED <<inbox, hnd, query, type, page, limit, db, queries, uncaught>>
    /\ UNCHANGED bookingVars

\* A failure handled per promise: every rejection sends its own 500.
FailAnswersEach(op) ==
    /\ op \in DOMAIN opState
    /\ opState[op] = "pending"
    /\ opState' = [opState EXCEPT ![op] = "failed"]
    /\ sent' = Append(sent, Failure)
    /\ pc' = "done"
    /\ uncaught' = (uncaught \/ op \notin Attached(hnd))
    /\ UNCHANGED <<inbox, hnd, query, type, page, limit, db, slots, queries>>
    /\ UNCHANGED bookingVars

\* A database operation fails: its promise is rejected.
Fail(op) ==
    /\ op \in DOMAIN opState
    /\ opState[op] = "pending"
    /\ opState' = [opState EXCEPT ![op] = "failed"]
    /\ Resume(opState', slots)
    /\ uncaught' = (uncaught \/ op \notin Attached(hnd))
    /\ UNCHANGED <<inbox, hnd, query, type, page, limit, db, slots, queries>>
    /\ UNCHANGED bookingVars

Next ==
    \/ Receive
    \/ UnifiedSearch
    \/ Autocomplete
    \/ \E op \in 1..6 : Complete(op)
    \/ \E op \in 1..6 : Fail(op)

Spec == Init /\ [][Next]_vars

\* A database operation of the request settles.
Settle == \E op \in 1..6 : Complete(op) \/ Fail(op)

\* The event loop runs the handler of a request that arrived.
Handle == UnifiedSearch \/ Autocomplete

\* Every issued operation eventually completes or fails, and the event loop
\* eventually runs the handler of a request that arrived.
FairSpec == Spec /\ WF_vars(Settle) /\ WF_vars(Handle)

\* new BookingModel({...})
NewBooking ==
    /\ ~doc.created
    /\ \E ci \in DateInputs, co \in DateInputs, n \in NightsInputs, g \in BOOLEAN,
          a \in 1..MaxAdults, c \in ChildrenInputs, t \in TotalInputs :
          /\ doc' = NewDoc(ci, co, n, g, a, c, t)
          /\ supplied' = [nights |-> n, total |-> IF g THEN t ELSE Unset]
    /\ saves' = 0
    /\ UNCHANGED searchVars

\* The caller changes the stay or the party of a document it holds.
UpdateBooking ==
    /\ doc.created
    /\ \/ \E ci \in DateInputs \ {Unset} : doc' = [doc EXCEPT !.checkIn = ci]
       \/ \E co \in DateInputs \ {Unset} : doc' = [doc EXCEPT !.checkOut = co]
       \/ /\ doc.hasGuests
          /\ \E a \in 1..MaxAdults : doc' = [doc EXCEPT !.adults = a]
       \/ /\ doc.hasGuests
          /\ \E c \in ChildrenInputs : doc' = [doc EXCEPT !.children = c]
    /\ UNCHANGED <<supplied, saves>>
    /\ UNCHANGED searchVars

\* doc.save(): the pre-save middleware runs, then the document is written.
Save ==
    /\ doc.created
    /\ saves < MaxSaves
    /\ doc' = PreSave(doc)
    /\ saves' = saves + 1
    /\ UNCHANGED supplied
    /\ UNCHANGED searchVars

BookingNext ==
    \/ NewBooking
    \/ UpdateBooking
    \/ Save

BookingSpec == Init /\ [][BookingNext]_vars

\* ------------------------------------------------------------------ properties
\* The raw length of the search term of a request; an absent term has length 0.
TermLength(req) == IF req.hasQ THEN Len(req.q) ELSE 0

SuccessSent == \E i \in 1..Len(sent) : sent[i].status = 200

SearchTypes == {"homestays", "guides", "products"}

Failed == {op \in DOMAIN opState : opState[op] = "failed"}

Fulfilled == {op \in DOMAIN opState : opState[op] = "ok"}

\* C1: a request to unifiedSearch or autocomplete whose search term has a
\* length below 2 (an absent term included) is answered by the handler with
\* the 400 validation error naming field q, whatever type, page and limit
\* are; and whenever the handler's (trimmed) term is shorter than 2 the only
\* response ever sent is that error, so no success response is sent.
C1_ShortTermRejected ==
    /\ [][(inbox # <<>> /\ inbox' = <<>> /\ TermLength(Head(inbox)) < 2)
            => (sent' = <<ValidationError>> /\ pc' = "done" /\ queries' = <<>>)]_vars
    /\ []((hnd # "none" /\ Len(query) < 2) => (sent = <<ValidationError>> /\ pc = "done"))

C1_Witness ==
    /\ hnd = "unifiedSearch"
    /\ Len(query) = 1
    /\ type = "guides"
    /\ page = 2
    /\ limit = 1
    /\ sent = <<ValidationError>>

\* C2: in unifiedSearch with a type filter of homestays, guides or products,
\* no find or count query is ever issued for the two other types, and in a
\* success response their item lists are empty, their counts are 0 and
\* total.overall equals the count of the selected type.
C2_OnlySelectedTypeQueried ==
    (hnd = "unifiedSearch" /\ type \in SearchTypes) =>
        /\ \A i \in 1..Len(queries) : queries[i].coll = type
        /\ \A i \in 1..Len(sent) : sent[i].status = 200 =>
              /\ \A c \in SearchTypes \ {type} :
                    /\ sent[i].body[c] = <<>>
                    /\ sent[i].body.total[c] = 0
              /\ sent[i].body.total.overall = sent[i].body.total[type]
              /\ sent[i].body.total[type] = db[type]

C2_Witness ==
    /\ hnd = "unifiedSearch"
    /\ type = "guides"
    /\ db["homestays"] = 2
    /\ db["guides"] = 1
    /\ SuccessSent
    /\ sent[1].body.total.overall = 1
    /\ Len(queries) = 2

\* C3: in every success response of unifiedSearch total.overall is the sum of
\* the three per-type totals, and the pagination metadata is the one computed
\* from (page, limit, total.overall).
C3_OverallIsSum ==
    hnd = "unifiedSearch" =>
        \A i \in 1..Len(sent) : sent[i].status = 200 =>
            LET b == sent[i].body
            IN  /\ b.total.overall = b.total.homestays + b.total.guides + b.total.products
                /\ b.pagination = GetPaginationMeta(page, limit, b.total.overall)

C3_Witness ==
    /\ hnd = "unifiedSearch"
    /\ type = "all"
    /\ page = 2
    /\ SuccessSent
    /\ sent[1].body.total.homestays = 1
    /\ sent[1].body.total.guides = 2
    /\ sent[1].body.total.products = 2
    /\ sent[1].body.total.overall = 5

\* C4: every fetch unifiedSearch issues carries skip = (page-1)*limit and
\* limit = limit, the same for all active types; page and limit are at least
\* 1; each list of a success response has at most limit items, so a response
\* carries at most 3*limit items (and the witness carries exactly 3*limit).
C4_SamePagePerType ==
    hnd = "unifiedSearch" =>
        /\ page >= 1
        /\ limit >= 1
        /\ \A i \in 1..Len(queries) : queries[i].kind = "find" =>
              /\ queries[i].skip = (page - 1) * limit
              /\ queries[i].limit = limit
        /\ \A i \in 1..Len(sent) : sent[i].status = 200 =>
              LET b == sent[i].body
              IN  /\ \A c \in SearchTypes :
                        /\ Len(b[c]) <= limit
                        /\ \A k \in 1..Len(b[c]) :
                              /\ b[c][k].id = (page - 1) * limit + k
                              /\ b[c][k].id <= db[c]
                  /\ Len(b.homestays) + Len(b.guides) + Len(b.products) <= 3 * limit

C4_Witness ==
    /\ hnd = "unifiedSearch"
    /\ type = "all"
    /\ page = 2
    /\ limit = 1
    /\ SuccessSent
    /\ \A i \in 1..Len(queries) : queries[i].kind = "find" => queries[i].skip = 1
    /\ Len(sent[1].body.homestays) + Len(sent[1].body.guides) + Len(sent[1].body.products) = 3

\* What a category contributes to autocomplete: its first (at most 3) matches.
CategoryPart(c) == [k \in 1..Min(SuggestionLimit, db[c]) |-> [type |-> Tag(c), id |-> k]]

Concatenation ==
    CategoryPart("districts") \o CategoryPart("homestays")
        \o CategoryPart("guides") \o CategoryPart("products")

\* C5: the suggestions of autocomplete are the first min(10, n) entries of
\* locations ++ homestays ++ guides ++ products (each of at most 3 entries,
\* n their total length); when every category returns 3 entries there are
\* exactly 10 suggestions: 3 locations, 3 homestays, 3 guides and 1 product.
C5_FirstTenOfConcatenation ==
    hnd = "autocomplete" =>
        \A i \in 1..Len(sent) : sent[i].status = 200 =>
            LET sg == sent[i].body.suggestions
                n  == Len(Concatenation)
            IN  /\ Len(sg) = Min(10, n)
                /\ \A k \in 1..Len(sg) : sg[k] = Concatenation[k]
                /\ (\A c \in Collections : db[c] >= 3) =>
                      /\ Len(sg) = 10
                      /\ \A k \in 1..3 : sg[k].type = "location"
                      /\ \A k \in 4..6 : sg[k].type = "homestay"
                      /\ \A k \in 7..9 : sg[k].type = "guide"
                      /\ sg[10] = [type |-> "product", id |-> 1]

C5_Witness ==
    /\ hnd = "autocomplete"
    /\ \A c \in Collections : db[c] >= 3
    /\ SuccessSent
    /\ Len(sent[1].body.suggestions) = 10
    /\ sent[1].body.suggestions[10].type = "product"

\* C6: once one of the issued operations has failed, no success response is
\* ever sent, whatever the other operations did; the response the handler
\* sends is the generic 500 error, which carries no result; and no operation
\* is issued twice.
C6_FailureAbortsAll ==
    /\ \A i, j \in 1..Len(queries) : i # j => queries[i].op # queries[j].op
    /\ Failed # {} =>
          /\ ~SuccessSent
          /\ pc = "done" => (sent = <<Failure>> /\ sent[1].body = <<>>)
          /\ pc # "done" => sent = <<>>

C6_Witness ==
    /\ hnd = "unifiedSearch"
    /\ type = "all"
    /\ Cardinality(Failed) = 1
    /\ Cardinality(Fulfilled) = 5
    /\ pc = "done"
    /\ sent = <<Failure>>

\* The success payload as a function of the request and the database alone.
ExpectedSearch ==
    LET part(c) == IF Active(type, c)
                   THEN [k \in 1..Max(0, Min(limit, db[c] - (page - 1) * limit)) |->
                            [id |-> (page - 1) * limit + k, type |-> Tag(c)]]
                   ELSE <<>>
        cnt(c)  == IF Active(type, c) THEN db[c] ELSE 0
        overall == cnt("homestays") + cnt("guides") + cnt("products")
    IN  [homestays |-> part("homestays"), guides |-> part("guides"),
         products |-> part("products"),
         total |-> [homestays |-> cnt("homestays"), guides |-> cnt("guides"),
                    products |-> cnt("products"), overall |-> overall],
         query |-> query,
         pagination |-> GetPaginationMeta(page, limit, overall)]

ExpectedAuto == [suggestions |-> SubSeq(Concatenation, 1, Min(10, Len(Concatenation)))]

\* The operations of the running request that are database operations.
DbOps ==
    IF hnd = "unifiedSearch"
    THEN {op \in 1..6 : Active(type, OpColl("unifiedSearch", op))}
    ELSE 1..4

\* C9: every operation of the request is issued before any of them settles
\* or is awaited; a success response is sent only when all of them have
\* completed; and its content depends on the request and the data alone, not
\* on the order in which the operations completed.
C9_FanOutThenJoin ==
    /\ (pc = "waiting" \/ Failed # {} \/ Fulfilled # {}) =>
          /\ {queries[i].op : i \in 1..Len(queries)} = DbOps
          /\ DOMAIN opState = OpsOf(hnd)
    /\ SuccessSent =>
          /\ \A op \in DOMAIN opState : opState[op] = "ok"
          /\ sent = <<Success(IF hnd = "unifiedSearch" THEN ExpectedSearch ELSE ExpectedAuto)>>

C9_Witness ==
    /\ hnd = "unifiedSearch"
    /\ type = "all"
    /\ Len(queries) = 6
    /\ db["homestays"] = 2
    /\ db["guides"] = 1
    /\ db["products"] = 0
    /\ limit = 1
    /\ SuccessSent

\* C10: never more than one response and never an unhandled rejection, also
\* while operations settle after the 500 went out; and once every issued
\* operation settles, a request that arrived is answered with exactly one
\* response.
C10_ExactlyOneResponse ==
    /\ [](Len(sent) <= 1 /\ ~uncaught)
    /\ [][sent # <<>> => sent' = sent]_vars
    /\ (inbox # <<>>) ~> (Len(sent) = 1 /\ pc = "done")

C10_Witness ==
    /\ hnd = "autocomplete"
    /\ sent = <<Failure>>
    /\ Cardinality(Failed) = 2
    /\ Cardinality(Fulfilled) = 2
    /\ ~uncaught

\* The defining property of n = ceil(diff / MsPerDay).
IsCeilOfDays(n, diff) == (n - 1) * MsPerDay < diff /\ diff <= n * MsPerDay

\* C7: a save of a record with nights unset and both dates set leaves
\* nights = ceil((checkOut - checkIn) / 86,400,000 ms); a save of a record
\* with guests.total unset leaves guests.total = adults + (children or 0).
C7_DerivedOnSave ==
    [][(saves' = saves + 1) =>
        /\ (~doc.nights.set /\ doc.checkIn.set /\ doc.checkOut.set) =>
              /\ doc'.nights.set
              /\ IsCeilOfDays(doc'.nights.val, doc.checkOut.val - doc.checkIn.val)
        /\ (doc.hasGuests /\ ~doc.total.set) =>
              doc'.total = Val(doc.adults + (IF doc.children.set THEN doc.children.val ELSE 0))]_vars

C7_Witness ==
    /\ saves = 1
    /\ ~supplied.nights.set
    /\ ~supplied.total.set
    /\ doc.checkIn = Val(0)
    /\ doc.checkOut = Val(3 * MsPerDay)
    /\ doc.nights = Val(3)
    /\ doc.hasGuests
    /\ doc.adults = 2
    /\ doc.children = Val(0)
    /\ doc.total = Val(2)

\* C8: a supplied nights or guests.total (0 included) is the value of the
\* field after every save.
C8_SuppliedKept ==
    saves >= 1 =>
        /\ supplied.nights.set => doc.nights = supplied.nights
        /\ supplied.total.set => doc.total = supplied.total

====
